---------------------------- MODULE Spec2Model ----------------------------
(***************************************************************************)
(* A model of the plan ETL pipeline (dagster_pipelines): extract, validate,*)
(* pivot, load into DuckDB, join and preview, together with the asset      *)
(* dependency graph that orders the stages of one run.                     *)
(*                                                                         *)
(* Data frames are records [cols, dtypes, rows]: the column names, the     *)
(* pandas dtype of every column and the rows as tuples of cells.  A cell   *)
(* is a record [k, n, s, hi]: k is its kind ("int", "float", "str", "nan", *)
(* "ts"), s its text and hi * 2^31 + n its numeric value: hi is 0 for the  *)
(* values of a 4 byte INT and positive for the values from 2^31 up, which   *)
(* an int64 and a double hold and an INT does not.  Floating point values  *)
(* are the integers they denote (every value used is integral), so that    *)
(* the narrowing of a double to a 4 byte FLOAT is computed, not assumed;   *)
(* doubles beyond the range of a FLOAT are not among the values.  A "str"  *)
(* cell with s = "#int" or "#float" is the decimal text of that number,    *)
(* which is what astype(str) and a cast to VARCHAR produce from a number.  *)
(*                                                                         *)
(* The assets of one run are executed by separate processes: assets with   *)
(* no dependency between them run at the same time, and DuckDB lets one    *)
(* process at a time hold plan.db open.  Any statement sent to DuckDB may  *)
(* raise for a reason outside the program (the file is locked, the disk).  *)
(*                                                                         *)
(* The schedule does not keep the runs of the job apart: the model follows *)
(* one run, and the runs before it and beside it act on plan.db.  Because  *)
(* a process holds plan.db for the whole of a with block, a load of        *)
(* another run is seen by this run as one step, taken while this run holds *)
(* no connection; a connection of another run makes duckdb.connect raise.  *)
(***************************************************************************)
EXTENDS Integers, Sequences, FiniteSets, TLC

\* ------------------------------------------------------------------ cells

IntC(n) == [k |-> "int", n |-> n, s |-> "", hi |-> 0]
FltC(n) == [k |-> "float", n |-> n, s |-> "", hi |-> 0]
StrC(t) == [k |-> "str", n |-> 0, s |-> t, hi |-> 0]
NaN == [k |-> "nan", n |-> 0, s |-> "", hi |-> 0]

\* the int64 2^31 + n, which is beyond the range of a 4 byte INT
BigC(n) == [k |-> "int", n |-> n, s |-> "", hi |-> 1]

\* the decimal text of the number c
NumText(c) == [c EXCEPT !.k = "str", !.s = IF c.k = "int" THEN "#int" ELSE "#float"]

\* the number c as a float64
AsFloat(c) == [c EXCEPT !.k = "float", !.s = ""]

\* the number c as an int64
AsInt(c) == [c EXCEPT !.k = "int", !.s = ""]

IsNumText(c) == c.k = "str" /\ c.s \in {"#int", "#float"}

\* ----------------------------------------------------------------- frames

Frame(cols, dtypes, rows) == [cols |-> cols, dtypes |-> dtypes, rows |-> rows]

Range(f) == {f[i] : i \in DOMAIN f}

HasCol(df, c) == c \in Range(df.cols)

ColIdx(df, c) == CHOOSE i \in DOMAIN df.cols : df.cols[i] = c

Column(df, c) == [r \in DOMAIN df.rows |-> df.rows[r][ColIdx(df, c)]]

\* pandas DataFrame.empty: an axis of length 0
IsEmpty(df) == Len(df.rows) = 0 \/ Len(df.cols) = 0

Min(a, b) == IF a < b THEN a ELSE b

\* the frame with column c replaced by cells (one per row) of dtype dt
SetColumn(df, c, cells, dt) ==
    LET i == ColIdx(df, c) IN
    [df EXCEPT !.dtypes = [df.dtypes EXCEPT ![i] = dt],
               !.rows = [r \in DOMAIN df.rows |->
                            [df.rows[r] EXCEPT ![i] = cells[r]]]]

\* --------------------------------------------------------------- extract

IdVars == <<"Fiscal_Year", "Center_ID", "Kpi Number", "Kpi_Name", "Unit">>

ValueVars == <<"Plan_Total", "Plan_Q1", "Plan_Q2", "Plan_Q3", "Plan_Q4",
               "Actual_Total", "Actual_Q1", "Actual_Q2", "Actual_Q3", "Actual_Q4">>

\* pd.to_numeric(errors='coerce') of one cell: text that is no number is NaN
ToNumericCell(c) ==
    IF c.k = "str"
    THEN (IF c.s = "#int" THEN AsInt(c)
          ELSE IF c.s = "#float" THEN AsFloat(c) ELSE NaN)
    ELSE c

\* pd.to_numeric of a column: int64 when every cell is an integer, else float64
ToNumeric(cells) ==
    LET conv == [r \in DOMAIN cells |-> ToNumericCell(cells[r])]
        allInt == \A r \in DOMAIN conv : conv[r].k = "int"
    IN  [dtype |-> IF allInt THEN "int64" ELSE "float64",
         cells |-> [r \in DOMAIN conv |->
                      IF allInt \/ conv[r].k # "int" THEN conv[r]
                      ELSE AsFloat(conv[r])]]

\* astype(str) of one cell
AsStrCell(c) ==
    IF c.k \in {"int", "float"} THEN NumText(c)
    ELSE IF c.k = "nan" THEN StrC("nan")
    ELSE c

\* astype(int) of one cell is defined for numbers and numeric text only
CanAsInt(c) == c.k \in {"int", "float"} \/ (c.k = "str" /\ c.s = "#int")

RECURSIVE CoerceNumeric(_, _)
\* the loop of extract.py:28-29 from value column i on
CoerceNumeric(df, i) ==
    IF i > Len(ValueVars) THEN df
    ELSE LET t == ToNumeric(Column(df, ValueVars[i]))
         IN  CoerceNumeric(SetColumn(df, ValueVars[i], t.cells, t.dtype), i + 1)

RECURSIVE AsTypeStr(_, _, _)
\* astype(str) of the columns names[i..]
AsTypeStr(df, names, i) ==
    IF i > Len(names) THEN df
    ELSE LET col == Column(df, names[i])
         IN  AsTypeStr(SetColumn(df, names[i],
                                 [r \in DOMAIN col |-> AsStrCell(col[r])], "object"),
                       names, i + 1)

Raise(kind, col) == [ok |-> FALSE, err |-> kind, col |-> col, df |-> Frame(<<>>, <<>>, <<>>)]

Return(df) == [ok |-> TRUE, err |-> "", col |-> "", df |-> df]

\* read_excel(file_path, validate_dtypes=True) on the parsed sheet
read_excel(sheet) ==
    IF IsEmpty(sheet) THEN Raise("ValueError", "")
    ELSE IF \E i \in DOMAIN ValueVars : ~HasCol(sheet, ValueVars[i])
    THEN Raise("KeyError", ValueVars[CHOOSE i \in DOMAIN ValueVars :
                    /\ ~HasCol(sheet, ValueVars[i])
                    /\ \A j \in 1..(i - 1) : HasCol(sheet, ValueVars[j])])
    ELSE IF \E i \in DOMAIN IdVars : ~HasCol(sheet, IdVars[i])
    THEN Raise("KeyError", "")
    ELSE LET num == CoerceNumeric(sheet, 1)
             fy == Column(num, "Fiscal_Year")
         IN  IF \E r \in DOMAIN fy : ~CanAsInt(fy[r])
             THEN Raise("ValueError", "Fiscal_Year")
             ELSE Return(AsTypeStr(
                    SetColumn(num, "Fiscal_Year",
                              [r \in DOMAIN fy |-> AsInt(fy[r])], "int64"),
                    SubSeq(IdVars, 2, 5), 1))

\* read_csv(file_path, validate_dtypes=True) on the parsed file
read_csv(csv) ==
    IF IsEmpty(csv) THEN Raise("ValueError", "")
    ELSE IF ~HasCol(csv, "Center_ID") \/ ~HasCol(csv, "Center_Name")
    THEN Raise("KeyError", "")
    ELSE Return(AsTypeStr(csv, <<"Center_ID", "Center_Name">>, 1))

\* -------------------------------------------------------------- validate

\* pd.Series(dtype()).dtype for the Python types int, str and float
ExpectedDtype(pytype) ==
    CASE pytype = "int" -> "int64"
      [] pytype = "str" -> "object"
      [] pytype = "float" -> "float64"

KpiContract == <<
    <<"Fiscal_Year", "int">>, <<"Center_ID", "str">>, <<"Kpi Number", "str">>,
    <<"Kpi_Name", "str">>, <<"Unit", "str">>,
    <<"Plan_Total", "float">>, <<"Plan_Q1", "float">>, <<"Plan_Q2", "float">>,
    <<"Plan_Q3", "float">>, <<"Plan_Q4", "float">>,
    <<"Actual_Total", "float">>, <<"Actual_Q1", "float">>, <<"Actual_Q2", "float">>,
    <<"Actual_Q3", "float">>, <<"Actual_Q4", "float">> >>

PivotContract == <<
    <<"Fiscal_Year", "int">>, <<"Center_ID", "str">>, <<"Kpi Number", "str">>,
    <<"Kpi_Name", "str">>, <<"Unit", "str">>, <<"Amount Name", "str">>,
    <<"Amount", "float">>, <<"Amount Type", "str">> >>

CenterContract == << <<"Center_ID", "str">>, <<"Center_Name", "str">> >>

\* one iteration of the loop of validate_data: the verdict on contract entry e
CheckColumn(df, e) ==
    IF ~HasCol(df, e[1]) THEN Raise("ValueError", e[1])
    ELSE IF df.dtypes[ColIdx(df, e[1])] # ExpectedDtype(e[2])
    THEN Raise("TypeError", e[1])
    ELSE Return(df)

\* a variant of the loop that looks for missing columns before any dtype
ValidateMissingFirst(df, contract, i) ==
    LET missing == {j \in i..Len(contract) : ~HasCol(df, contract[j][1])}
        wrong == {j \in i..Len(contract) : ~CheckColumn(df, contract[j]).ok}
        least(S) == CHOOSE j \in S : \A m \in S : j <= m
    IN  IF missing # {} THEN CheckColumn(df, contract[least(missing)])
        ELSE IF wrong # {} THEN CheckColumn(df, contract[least(wrong)])
        ELSE Return(df)

RECURSIVE ValidateFrom(_, _, _)
\* the loop of validate_data from contract entry i on: the first raise ends it
ValidateFrom(df, contract, i) ==
    IF i > Len(contract) THEN Return(df)
    ELSE LET v == CheckColumn(df, contract[i])
         IN  IF v.ok THEN ValidateFrom(df, contract, i + 1) ELSE v

validate_data(df, expected_types) == ValidateFrom(df, expected_types, 1)

\* ------------------------------------------------------------- transform

\* the characters of the value column names, for str.split
Chars(name) ==
    CASE name = "Plan_Total" -> <<"P","l","a","n","_","T","o","t","a","l">>
      [] name = "Plan_Q1" -> <<"P","l","a","n","_","Q","1">>
      [] name = "Plan_Q2" -> <<"P","l","a","n","_","Q","2">>
      [] name = "Plan_Q3" -> <<"P","l","a","n","_","Q","3">>
      [] name = "Plan_Q4" -> <<"P","l","a","n","_","Q","4">>
      [] name = "Actual_Total" -> <<"A","c","t","u","a","l","_","T","o","t","a","l">>
      [] name = "Actual_Q1" -> <<"A","c","t","u","a","l","_","Q","1">>
      [] name = "Actual_Q2" -> <<"A","c","t","u","a","l","_","Q","2">>
      [] name = "Actual_Q3" -> <<"A","c","t","u","a","l","_","Q","3">>
      [] name = "Actual_Q4" -> <<"A","c","t","u","a","l","_","Q","4">>
      [] name = "Plan" -> <<"P","l","a","n">>
      [] name = "Actual" -> <<"A","c","t","u","a","l">>

\* x.split('_')[0]: the text before the first underscore
SplitFirst(name) ==
    LET cs == Chars(name)
        cut == IF \E i \in DOMAIN cs : cs[i] = "_"
               THEN (CHOOSE i \in DOMAIN cs :
                        cs[i] = "_" /\ \A j \in 1..(i - 1) : cs[j] # "_") - 1
               ELSE Len(cs)
    IN  CHOOSE w \in {"Plan", "Actual"} \cup Range(ValueVars) :
            Chars(w) = SubSeq(cs, 1, cut)

\* the dtype numpy gives the concatenation of the value columns
CommonDtype(dts) ==
    IF "object" \in dts THEN "object"
    ELSE IF "float64" \in dts THEN "float64"
    ELSE "int64"

MeltCell(c, dt) == IF dt = "float64" /\ c.k = "int" THEN AsFloat(c) ELSE c

\* a variant of melt that leaves out the rows whose value is missing
MeltDropMissing(df) ==
    LET R == Len(df.rows)
        dt == CommonDtype({df.dtypes[ColIdx(df, ValueVars[j])] : j \in DOMAIN ValueVars})
        ids(r) == [i \in DOMAIN IdVars |-> df.rows[r][ColIdx(df, IdVars[i])]]
        row(k) == LET j == ((k - 1) \div R) + 1
                      r == ((k - 1) % R) + 1
                  IN  ids(r) \o <<StrC(ValueVars[j]),
                                  MeltCell(df.rows[r][ColIdx(df, ValueVars[j])], dt)>>
        all == [k \in 1..(Len(ValueVars) * R) |-> row(k)]
    IN  Frame(IdVars \o <<"Amount Name", "Amount">>,
              [i \in DOMAIN IdVars |-> df.dtypes[ColIdx(df, IdVars[i])]]
                  \o <<"object", dt>>,
              SelectSeq(all, LAMBDA x : x[Len(IdVars) + 2].k # "nan"))

\* DataFrame.melt(id_vars, value_vars, var_name, value_name): the value
\* columns one after the other, each with every row of the frame in order
Melt(df) ==
    LET R == Len(df.rows)
        dt == CommonDtype({df.dtypes[ColIdx(df, ValueVars[j])] : j \in DOMAIN ValueVars})
        ids(r) == [i \in DOMAIN IdVars |-> df.rows[r][ColIdx(df, IdVars[i])]]
        row(k) == LET j == ((k - 1) \div R) + 1
                      r == ((k - 1) % R) + 1
                  IN  ids(r) \o <<StrC(ValueVars[j]),
                                  MeltCell(df.rows[r][ColIdx(df, ValueVars[j])], dt)>>
    IN  Frame(IdVars \o <<"Amount Name", "Amount">>,
              [i \in DOMAIN IdVars |-> df.dtypes[ColIdx(df, IdVars[i])]]
                  \o <<"object", dt>>,
              [k \in 1..(Len(ValueVars) * R) |-> row(k)])

\* pivot_data(dataframe) of a frame that has the identifier and value columns
pivot_data(df) ==
    LET m == Melt(df)
        an == ColIdx(m, "Amount Name")
    IN  Frame(m.cols \o <<"Amount Type">>,
              m.dtypes \o <<"object">>,
              [k \in DOMAIN m.rows |->
                  m.rows[k] \o <<StrC(SplitFirst(m.rows[k][an].s))>>])

\* ------------------------------------------------------------------ sink

KpiSchema == <<
    <<"Fiscal_Year", "INT">>, <<"Center_ID", "VARCHAR">>, <<"Kpi_Number", "VARCHAR">>,
    <<"Kpi_Name", "VARCHAR">>, <<"Unit", "VARCHAR">>, <<"Amount_Name", "VARCHAR">>,
    <<"Amount", "FLOAT">>, <<"Amount_Type", "VARCHAR">> >>

CenterSchema == << <<"Center_ID", "VARCHAR">>, <<"Center_Name", "VARCHAR">> >>

\* column_definitions = None
NoSchema == <<>>

Table(cols, types, rows) ==
    [exists |-> TRUE, cols |-> cols, types |-> types, rows |-> rows]

NoTable == [exists |-> FALSE, cols |-> <<>>, types |-> <<>>, rows |-> <<>>]

\* the SQL type DuckDB gives a pandas column scanned through df_view
SqlTypeOf(dtype) ==
    CASE dtype = "int64" -> "BIGINT"
      [] dtype = "int32" -> "INT"
      [] dtype = "float64" -> "DOUBLE"
      [] dtype = "float32" -> "FLOAT"
      [] dtype = "datetime64" -> "TIMESTAMP"
      [] OTHER -> "VARCHAR"

\* the pandas dtype fetchdf gives a column of a SQL type
DtypeOf(sqltype) ==
    CASE sqltype = "BIGINT" -> "int64"
      [] sqltype = "INT" -> "int32"
      [] sqltype = "DOUBLE" -> "float64"
      [] sqltype = "FLOAT" -> "float32"
      [] sqltype = "TIMESTAMP" -> "datetime64"
      [] OTHER -> "object"

\* 2^24: the integers a 4 byte FLOAT holds exactly end here
Float32Exact == 16777216

RECURSIVE Ulp(_, _)
\* the spacing of 4 byte floats around n >= 0, from the spacing u on
Ulp(n, u) == IF n \div u < Float32Exact THEN u ELSE Ulp(n, 2 * u)

RECURSIVE Pow2Floor(_, _)
\* the largest power of two that is at most h, from the power b on
Pow2Floor(h, b) == IF 2 * b > h THEN b ELSE Pow2Floor(h, 2 * b)

\* the 4 byte float nearest to an integer of q spacings and a rest of r,
\* counted in spacings of u: ties go to the even mantissa
RoundEven(q, r, u) ==
    IF 2 * r < u THEN q
    ELSE IF 2 * r > u THEN q + 1
    ELSE IF q % 2 = 0 THEN q ELSE q + 1

\* the 4 byte float nearest to the number c
Float32(c) ==
    IF c.hi = 0
    THEN IF c.n = -2147483647 - 1 THEN AsFloat(c)
         ELSE LET a == IF c.n < 0 THEN -c.n ELSE c.n
                  u == Ulp(a, 1)
                  m == RoundEven(a \div u, a % u, u)
                  \* 2^24 spacings of 2^7 are 2^31
                  carry == m = Float32Exact /\ u = 128
              IN  IF carry /\ c.n < 0 THEN AsFloat([c EXCEPT !.n = -2147483647 - 1])
                  ELSE IF carry THEN AsFloat([c EXCEPT !.n = 0, !.hi = 1])
                  ELSE AsFloat([c EXCEPT !.n = IF c.n < 0 THEN -(m * u) ELSE m * u])
    ELSE \* from hi * 2^31 on: the spacing is 2^8 times the power of two in hi,
         \* and 2^31 is per spacings
         LET b == Pow2Floor(c.hi, 1)
             u == 256 * b
             per == (Float32Exact \div 2) \div b
             m == RoundEven(c.hi * per + c.n \div u, c.n % u, u)
         IN  IF m = Float32Exact THEN AsFloat([c EXCEPT !.n = 0, !.hi = 2 * b])
             ELSE AsFloat([c EXCEPT !.n = (m % per) * u, !.hi = m \div per])

\* text that DuckDB reads as the floating point NaN
IsNanText(c) == c.k = "str" /\ c.s = "nan"

\* whether DuckDB can cast cell c to the SQL type (NaN is stored as NULL):
\* a number beyond the range of the type is a conversion error
CanCast(c, sqltype) ==
    \/ c.k = "nan"
    \/ sqltype = "VARCHAR"
    \/ sqltype = "TIMESTAMP" /\ c.k = "ts"
    \/ sqltype = "INT" /\ (c.k \in {"int", "float"} \/ IsNumText(c)) /\ c.hi = 0
    \/ sqltype \in {"BIGINT", "FLOAT", "DOUBLE"}
         /\ (c.k \in {"int", "float"} \/ IsNumText(c))
    \/ sqltype \in {"FLOAT", "DOUBLE"} /\ IsNanText(c)

\* the stored value of cell c in a column of the SQL type
Cast(c, sqltype) ==
    IF c.k = "nan" THEN NaN
    ELSE IF sqltype = "VARCHAR"
    THEN (IF c.k \in {"int", "float"} THEN NumText(c) ELSE c)
    ELSE IF sqltype \in {"FLOAT", "DOUBLE"} /\ IsNanText(c) THEN NaN
    ELSE IF sqltype \in {"INT", "BIGINT"} THEN AsInt(c)
    ELSE IF sqltype = "FLOAT" THEN Float32(c)
    ELSE IF sqltype = "DOUBLE" THEN AsFloat(c)
    ELSE c

CastRow(row, types) == [i \in DOMAIN row |-> Cast(row[i], types[i])]

CastRows(rows, types) == [r \in DOMAIN rows |-> CastRow(rows[r], types)]

SchemaCols(coldefs) == [i \in DOMAIN coldefs |-> coldefs[i][1]]

SchemaTypes(coldefs) == [i \in DOMAIN coldefs |-> coldefs[i][2]]

\* CREATE OR REPLACE TABLE t AS SELECT * FROM df_view
CreateAsSelect(df) ==
    LET types == [i \in DOMAIN df.dtypes |-> SqlTypeOf(df.dtypes[i])]
    IN  Table(df.cols, types, CastRows(df.rows, types))

\* a variant that keeps a table that is there (CREATE TABLE IF NOT EXISTS)
CreateIfAbsent(old, coldefs) ==
    IF old.exists THEN old
    ELSE Table(SchemaCols(coldefs), SchemaTypes(coldefs), <<>>)

\* CREATE OR REPLACE TABLE t (column_definitions) in place of the table old:
\* the table as declared, empty
CreateOrReplace(old, coldefs) == Table(SchemaCols(coldefs), SchemaTypes(coldefs), <<>>)

\* whether INSERT INTO t SELECT * FROM df_view succeeds: the columns are
\* matched by position, so their number must agree and every cell must cast
InsertOk(tbl, df) ==
    /\ Len(df.cols) = Len(tbl.cols)
    /\ \A r \in DOMAIN df.rows : \A i \in DOMAIN tbl.types :
           CanCast(df.rows[r][i], tbl.types[i])

\* INSERT INTO t SELECT * FROM df_view, when it succeeds
InsertSelect(tbl, df) ==
    [tbl EXCEPT !.rows = tbl.rows \o CastRows(df.rows, tbl.types)]

\* con.execute("SELECT * FROM t").fetchdf()
FetchDf(tbl) ==
    Frame(tbl.cols, [i \in DOMAIN tbl.types |-> DtypeOf(tbl.types[i])], tbl.rows)

PreviewLimit == 5

\* a variant of the preview query that takes the last rows of the table
SelectTail(tbl) ==
    FetchDf([tbl EXCEPT !.rows =
        SubSeq(tbl.rows, Len(tbl.rows) - Min(PreviewLimit, Len(tbl.rows)) + 1,
               Len(tbl.rows))])

\* con.execute("SELECT * FROM t LIMIT 5").df()
SelectLimit(tbl) ==
    FetchDf([tbl EXCEPT !.rows = SubSeq(tbl.rows, 1, Min(PreviewLimit, Len(tbl.rows)))])

\* ------------------------------------------------------------------ join

RECURSIVE MatchesFrom(_, _, _, _)
\* the rows of right from row j on whose key equals key, without the key column
MatchesFrom(right, ki, key, j) ==
    IF j > Len(right.rows) THEN <<>>
    ELSE LET row == right.rows[j]
             rest == MatchesFrom(right, ki, key, j + 1)
         IN  IF row[ki] = key
             THEN <<SubSeq(row, 1, ki - 1) \o SubSeq(row, ki + 1, Len(row))>> \o rest
             ELSE rest

RECURSIVE MergeInnerFrom(_, _, _)
\* a variant of the merge that keeps only the rows with a match (how="inner")
MergeInnerFrom(left, right, i) ==
    IF i > Len(left.rows) THEN <<>>
    ELSE LET lrow == left.rows[i]
             ms == MatchesFrom(right, ColIdx(right, "Center_ID"),
                               lrow[ColIdx(left, "Center_ID")], 1)
         IN  [m \in DOMAIN ms |-> lrow \o ms[m]] \o MergeInnerFrom(left, right, i + 1)

RECURSIVE MergeFrom(_, _, _)
\* pd.merge(left, right, on="Center_ID", how="left") from left row i on
MergeFrom(left, right, i) ==
    IF i > Len(left.rows) THEN <<>>
    ELSE LET lrow == left.rows[i]
             ms == MatchesFrom(right, ColIdx(right, "Center_ID"),
                               lrow[ColIdx(left, "Center_ID")], 1)
             nulls == [c \in 1..(Len(right.cols) - 1) |-> NaN]
             mine == IF ms = <<>> THEN <<lrow \o nulls>>
                     ELSE [m \in DOMAIN ms |-> lrow \o ms[m]]
         IN  mine \o MergeFrom(left, right, i + 1)

MergeLeft(left, right) ==
    LET ki == ColIdx(right, "Center_ID")
        drop(s) == SubSeq(s, 1, ki - 1) \o SubSeq(s, ki + 1, Len(s))
    IN  Frame(left.cols \o drop(right.cols),
              left.dtypes \o drop(right.dtypes),
              MergeFrom(left, right, 1))

\* df_joined["updated_at"] = datetime.now()
AddUpdatedAt(df, now) ==
    Frame(df.cols \o <<"updated_at">>,
          df.dtypes \o <<"datetime64">>,
          [r \in DOMAIN df.rows |-> df.rows[r] \o <<[k |-> "ts", n |-> now, s |-> "", hi |-> 0]>>])

\* ----------------------------------------------------------------- state

VARIABLES
    kpiFile,     \* the parsed "Data to DB" sheet of KPI_FY.xlsm
    centerFile,  \* the parsed M_Center.csv
    others,      \* the number of loads other runs of the job have made
    status,      \* the state of every asset of the run
    pc,          \* the position inside every asset that is running
    out,         \* the values the assets returned
    sink,        \* plan.db: the tables of schema plan
    conns,       \* the open connections to plan.db: the asset and the block
    ld,          \* the call of load_to_duckdb of every asset that makes one,
                 \* with the number of its logger.error calls
    passed,      \* the frames validate_data returned in this run
    rejected,    \* the assets in which validate_data raised in this run
    loadCalls,   \* the calls of load_to_duckdb made in this run
    at,          \* the position of a direct call of a function
    arg,         \* the argument of that call
    ret          \* the result of that call

vars == <<kpiFile, centerFile, others, status, pc, out, sink, conns, ld,
          passed, rejected, loadCalls, at, arg, ret>>

Stages == {"read_validated_kpi_fy", "pivot_validated_kpi_fy", "kpi_fy",
           "preview_kpi_fy", "read_validate_m_center", "m_center",
           "preview_m_center", "kpi_fy_final_asset", "preview_kpi_fy_final"}

Tables == {"KPI_FY", "M_Center", "KPI_FY_Final"}

\* the assets that call load_to_duckdb
Loaders == {"kpi_fy", "m_center", "kpi_fy_final_asset"}

NoFrame == Frame(<<>>, <<>>, <<>>)

\* no call of load_to_duckdb is in progress
Idle == [pc |-> "idle", df |-> NoFrame, table |-> "", coldefs |-> NoSchema,
         opened |-> FALSE, logged |-> 0,
         before |-> [t \in Tables |-> NoTable],
         after |-> [t \in Tables |-> NoTable]]

\* a variant of the graph that reads the deps= arguments only
DepsDeclaredOnly(s) ==
    CASE s = "pivot_validated_kpi_fy" -> {"read_validated_kpi_fy"}
      [] s = "kpi_fy" -> {"pivot_validated_kpi_fy"}
      [] s = "preview_kpi_fy" -> {"kpi_fy"}
      [] s = "preview_m_center" -> {"m_center"}
      [] s = "kpi_fy_final_asset" -> {"preview_kpi_fy", "preview_m_center"}
      [] s = "preview_kpi_fy_final" -> {"kpi_fy_final_asset"}
      [] OTHER -> {}

\* the upstream assets of every asset: its deps= and its parameters
Deps(s) ==
    CASE s = "read_validated_kpi_fy" -> {}
      [] s = "pivot_validated_kpi_fy" -> {"read_validated_kpi_fy"}
      [] s = "kpi_fy" -> {"pivot_validated_kpi_fy"}
      [] s = "preview_kpi_fy" -> {"kpi_fy"}
      [] s = "read_validate_m_center" -> {}
      [] s = "m_center" -> {"read_validate_m_center"}
      [] s = "preview_m_center" -> {"m_center"}
      [] s = "kpi_fy_final_asset" -> {"preview_kpi_fy", "preview_m_center"}
      [] s = "preview_kpi_fy_final" -> {"kpi_fy_final_asset"}

\* the table a preview asset reads
PreviewTable(s) ==
    CASE s = "preview_kpi_fy" -> "KPI_FY"
      [] s = "preview_m_center" -> "M_Center"
      [] s = "preview_kpi_fy_final" -> "KPI_FY_Final"

Previews == {"preview_kpi_fy", "preview_m_center", "preview_kpi_fy_final"}

\* the connection opened by asset s in the with block of owner: the asset
\* itself ("asset") or load_to_duckdb ("load")
Conn(s, owner) == [stage |-> s, owner |-> owner]

\* plan.db is held open by the process of another asset: duckdb.connect
\* raises in the process of s
Locked(s) == \E c \in conns : c.stage # s

\* ------------------------------------------------------- load_to_duckdb

\* the call load_to_duckdb(df, table_name, column_definitions) begins; before
\* and after record the sink as the call found it and as it left it
BeginLoad(df, table, coldefs) ==
    [pc |-> "connect", df |-> df, table |-> table, coldefs |-> coldefs,
     opened |-> FALSE, logged |-> 0, before |-> sink, after |-> sink]

\* with duckdb.connect(...) as con; CREATE SCHEMA IF NOT EXISTS; register
LoadConnect(s) ==
    /\ ld[s].pc = "connect"
    /\ ~Locked(s)
    /\ conns' = conns \cup {Conn(s, "load")}
    /\ ld' = [ld EXCEPT ![s].pc = "create", ![s].opened = TRUE, ![s].before = sink]
    /\ UNCHANGED <<kpiFile, centerFile, others, status, pc, out, sink, passed, rejected, loadCalls, at, arg, ret>>

\* the statement the call has reached raises for a reason outside the
\* program: duckdb.connect (plan.db is locked), CREATE SCHEMA, CREATE OR
\* REPLACE TABLE, INSERT or the sample SELECT; every one is inside the try
LoadFault(s) ==
    /\ ld[s].pc \in {"connect", "create", "insert", "sample"}
    /\ ld' = [ld EXCEPT ![s].pc = "except"]
    /\ UNCHANGED <<kpiFile, centerFile, others, status, pc, out, sink, conns, passed, rejected, loadCalls, at, arg, ret>>

\* CREATE OR REPLACE TABLE, with the declared columns or AS SELECT
LoadCreate(s) ==
    /\ ld[s].pc = "create"
    /\ IF ld[s].coldefs = NoSchema
       THEN /\ sink' = [sink EXCEPT ![ld[s].table] = CreateAsSelect(ld[s].df)]
            /\ ld' = [ld EXCEPT ![s].pc = "sample"]
       ELSE /\ sink' = [sink EXCEPT ![ld[s].table] =
                          CreateOrReplace(sink[ld[s].table], ld[s].coldefs)]
            /\ ld' = [ld EXCEPT ![s].pc = "insert"]
    /\ UNCHANGED <<kpiFile, centerFile, others, status, pc, out, conns, passed, rejected, loadCalls, at, arg, ret>>

\* INSERT INTO t SELECT * FROM df_view: every row, or an exception and none
LoadInsert(s) ==
    /\ ld[s].pc = "insert"
    /\ IF InsertOk(sink[ld[s].table], ld[s].df)
       THEN /\ sink' = [sink EXCEPT ![ld[s].table] =
                          InsertSelect(sink[ld[s].table], ld[s].df)]
            /\ ld' = [ld EXCEPT ![s].pc = "sample"]
       ELSE /\ sink' = sink
            /\ ld' = [ld EXCEPT ![s].pc = "except"]
    /\ UNCHANGED <<kpiFile, centerFile, others, status, pc, out, conns, passed, rejected, loadCalls, at, arg, ret>>

\* the sample record is read and logged, the with block closes the connection
LoadFinish(s) ==
    /\ ld[s].pc = "sample"
    /\ conns' = conns \ {Conn(s, "load")}
    /\ ld' = [ld EXCEPT ![s].pc = "returned", ![s].after = sink]
    /\ UNCHANGED <<kpiFile, centerFile, others, status, pc, out, sink, passed, rejected, loadCalls, at, arg, ret>>

\* a variant of the error path that leaves the connection open
LoadExceptLeak(s) ==
    /\ ld[s].pc = "except"
    /\ ld' = [ld EXCEPT ![s].pc = "raised", ![s].after = sink,
                         ![s].logged = ld[s].logged + 1]
    /\ UNCHANGED <<kpiFile, centerFile, others, status, pc, out, sink, conns,
                   passed, rejected, loadCalls, at, arg, ret>>

\* the with block closes the connection it opened, the error is logged and
\* raised again
LoadExcept(s) ==
    /\ ld[s].pc = "except"
    /\ conns' = conns \ {Conn(s, "load")}
    /\ ld' = [ld EXCEPT ![s].pc = "raised", ![s].after = sink,
                         ![s].logged = ld[s].logged + 1]
    /\ UNCHANGED <<kpiFile, centerFile, others, status, pc, out, sink,
                   passed, rejected, loadCalls, at, arg, ret>>

LoadStep(s) ==
    \/ LoadConnect(s)
    \/ LoadFault(s)
    \/ LoadCreate(s)
    \/ LoadInsert(s)
    \/ LoadFinish(s)
    \/ LoadExcept(s)

\* ---------------------------------------------------------------- assets

\* what an asset function did: whether it returned, the frame it returned,
\* the frames validate_data returned in it and whether validate_data raised
Outcome(ok, df, pass, rej) ==
    [ok |-> ok, df |-> df, passed |-> pass, rejected |-> rej]

\* the asset read_validated_kpi_fy
read_validated_kpi_fy(sheet) ==
    LET r == read_excel(sheet)
        v == validate_data(r.df, KpiContract)
    IN  IF ~r.ok THEN Outcome(FALSE, NoFrame, {}, FALSE)
        ELSE IF v.ok THEN Outcome(TRUE, v.df, {v.df}, FALSE)
        ELSE Outcome(FALSE, NoFrame, {}, TRUE)

\* a variant of the asset that returns the pivoted frame without validating it
pivot_unvalidated(df) == Outcome(TRUE, pivot_data(df), {}, FALSE)

\* the asset pivot_validated_kpi_fy
pivot_validated_kpi_fy(df) ==
    LET v == validate_data(pivot_data(df), PivotContract)
    IN  IF v.ok THEN Outcome(TRUE, v.df, {v.df}, FALSE)
        ELSE Outcome(FALSE, NoFrame, {}, TRUE)

\* the asset read_validate_m_center
read_validate_m_center(csv) ==
    LET r == read_csv(csv)
        v == validate_data(r.df, CenterContract)
    IN  IF ~r.ok THEN Outcome(FALSE, NoFrame, {}, FALSE)
        ELSE IF v.ok THEN Outcome(TRUE, v.df, {v.df}, FALSE)
        ELSE Outcome(FALSE, NoFrame, {}, TRUE)

\* the frame kpi_fy_final_asset hands to load_to_duckdb
JoinedFrame(kpi, center, now) ==
    AddUpdatedAt(MergeLeft(FetchDf(kpi), FetchDf(center)), now)

\* the executor starts an asset, in a process of its own, once every
\* upstream asset has succeeded; other assets may be running
StartStage(s) ==
    /\ status[s] = "pending"
    /\ \A d \in Deps(s) : status[d] = "success"
    /\ status' = [status EXCEPT ![s] = "running"]
    /\ pc' = [pc EXCEPT ![s] = "body"]
    /\ UNCHANGED <<kpiFile, centerFile, others, out, sink, conns, ld, passed, rejected, loadCalls, at, arg, ret>>

\* the asset s ends with the outcome o
EndWith(s, o) ==
    /\ status' = [status EXCEPT ![s] = IF o.ok THEN "success" ELSE "failed"]
    /\ out' = [out EXCEPT ![s] = o.df]
    /\ passed' = passed \cup o.passed
    /\ rejected' = IF o.rejected THEN rejected \cup {s} ELSE rejected
    /\ pc' = [pc EXCEPT ![s] = "none"]

ReadKpi ==
    /\ pc["read_validated_kpi_fy"] = "body"
    /\ EndWith("read_validated_kpi_fy", read_validated_kpi_fy(kpiFile))
    /\ UNCHANGED <<kpiFile, centerFile, others, sink, conns, ld, loadCalls,
                   at, arg, ret>>

PivotKpi ==
    /\ pc["pivot_validated_kpi_fy"] = "body"
    /\ EndWith("pivot_validated_kpi_fy",
               pivot_validated_kpi_fy(out["read_validated_kpi_fy"]))
    /\ UNCHANGED <<kpiFile, centerFile, others, sink, conns, ld, loadCalls,
                   at, arg, ret>>

ReadCenter ==
    /\ pc["read_validate_m_center"] = "body"
    /\ EndWith("read_validate_m_center", read_validate_m_center(centerFile))
    /\ UNCHANGED <<kpiFile, centerFile, others, sink, conns, ld, loadCalls,
                   at, arg, ret>>

\* the assets kpi_fy and m_center call load_to_duckdb with their input
CallLoader(s) ==
    /\ s \in {"kpi_fy", "m_center"} /\ pc[s] = "body"
    /\ ld' = [ld EXCEPT ![s] =
                IF s = "kpi_fy"
                THEN BeginLoad(out["pivot_validated_kpi_fy"], "KPI_FY", KpiSchema)
                ELSE BeginLoad(out["read_validate_m_center"], "M_Center", CenterSchema)]
    /\ loadCalls' = loadCalls \cup {[table |-> ld'[s].table, df |-> ld'[s].df]}
    /\ pc' = [pc EXCEPT ![s] = "calling"]
    /\ UNCHANGED <<kpiFile, centerFile, others, status, out, sink, conns,
                   passed, rejected, at, arg, ret>>

\* load_to_duckdb returned or raised, and with it the asset
LoaderReturn(s) ==
    /\ s \in {"kpi_fy", "m_center"} /\ pc[s] = "calling"
    /\ ld[s].pc \in {"returned", "raised"}
    /\ status' = [status EXCEPT ![s] =
                    IF ld[s].pc = "returned" THEN "success" ELSE "failed"]
    /\ pc' = [pc EXCEPT ![s] = "none"]
    /\ UNCHANGED <<kpiFile, centerFile, others, out, sink, conns, ld, passed, rejected, loadCalls, at, arg, ret>>

\* the assets that open plan.db themselves
Openers == Previews \cup {"kpi_fy_final_asset"}

\* with duckdb.connect(...) as con, in a preview asset and in the join asset
StageConnect(s) ==
    /\ s \in Openers /\ pc[s] = "body"
    /\ ~Locked(s)
    /\ conns' = conns \cup {Conn(s, "asset")}
    /\ pc' = [pc EXCEPT ![s] = "opened"]
    /\ UNCHANGED <<kpiFile, centerFile, others, status, out, sink, ld,
                   passed, rejected, loadCalls, at, arg, ret>>

\* duckdb.connect or the query of the asset raises for a reason outside the
\* program (plan.db is locked): the exception leaves the with block
StageFault(s) ==
    /\ s \in Openers /\ pc[s] \in {"body", "opened"}
    /\ pc' = [pc EXCEPT ![s] = "fail"]
    /\ UNCHANGED <<kpiFile, centerFile, others, status, out, sink, conns, ld,
                   passed, rejected, loadCalls, at, arg, ret>>

\* SELECT * FROM plan.plan.<table> LIMIT 5, which raises when there is no table
PreviewSelect(s) ==
    /\ s \in Previews /\ pc[s] = "opened"
    /\ IF sink[PreviewTable(s)].exists
       THEN /\ out' = [out EXCEPT ![s] = SelectLimit(sink[PreviewTable(s)])]
            /\ pc' = [pc EXCEPT ![s] = "ok"]
       ELSE /\ out' = out
            /\ pc' = [pc EXCEPT ![s] = "fail"]
    /\ UNCHANGED <<kpiFile, centerFile, others, status, sink, conns, ld,
                   passed, rejected, loadCalls, at, arg, ret>>

\* both tables are read and merged, and load_to_duckdb is called on the result
JoinQuery ==
    LET s == "kpi_fy_final_asset" IN
    /\ pc[s] = "opened"
    /\ IF sink["KPI_FY"].exists /\ sink["M_Center"].exists
       THEN /\ ld' = [ld EXCEPT ![s] =
                        BeginLoad(JoinedFrame(sink["KPI_FY"], sink["M_Center"], others),
                                  "KPI_FY_Final", NoSchema)]
            /\ loadCalls' = loadCalls \cup {[table |-> ld'[s].table, df |-> ld'[s].df]}
            /\ pc' = [pc EXCEPT ![s] = "calling"]
       ELSE /\ ld' = ld
            /\ loadCalls' = loadCalls
            /\ pc' = [pc EXCEPT ![s] = "fail"]
    /\ UNCHANGED <<kpiFile, centerFile, others, status, out, sink, conns,
                   passed, rejected, at, arg, ret>>

\* load_to_duckdb returned or raised inside the with block of the join asset
JoinReturn ==
    LET s == "kpi_fy_final_asset" IN
    /\ pc[s] = "calling"
    /\ ld[s].pc \in {"returned", "raised"}
    /\ pc' = [pc EXCEPT ![s] = IF ld[s].pc = "returned" THEN "ok" ELSE "fail"]
    /\ UNCHANGED <<kpiFile, centerFile, others, status, out, sink, conns, ld,
                   passed, rejected, loadCalls, at, arg, ret>>

\* the with block of the asset ends, by return or by exception: con is closed
StageExit(s) ==
    /\ s \in Openers /\ pc[s] \in {"ok", "fail"}
    /\ conns' = conns \ {Conn(s, "asset")}
    /\ status' = [status EXCEPT ![s] = IF pc[s] = "ok" THEN "success" ELSE "failed"]
    /\ pc' = [pc EXCEPT ![s] = "none"]
    /\ UNCHANGED <<kpiFile, centerFile, others, out, sink, ld, passed, rejected, loadCalls, at, arg, ret>>

\* ---------------------------------------------------------------- inputs

\* the texts the pandas parsers read as a missing value
NaTexts == {"", "#N/A", "#N/A N/A", "#NA", "-1.#IND", "-1.#QNAN", "-NaN", "-nan",
            "1.#IND", "1.#QNAN", "<NA>", "N/A", "NA", "NULL", "NaN", "None",
            "n/a", "nan", "null"}

\* a cell as the parser reads it: the texts for a missing value are NaN
ParseCell(c) == IF c.k = "str" /\ c.s \in NaTexts THEN NaN ELSE c

\* the dtype the pandas parsers infer for a column of cells: no rows give
\* object; numbers, numeric text and missing values give int64 when all are
\* whole numbers and float64 otherwise; anything else gives object
InferDtype(cells) ==
    LET conv == [r \in DOMAIN cells |-> ParseCell(cells[r])]
        numeric(c) == c.k \in {"int", "float", "nan"} \/ IsNumText(c)
        whole(c) == c.k = "int" \/ (c.k = "str" /\ c.s = "#int")
    IN  IF DOMAIN cells = {} THEN "object"
        ELSE IF \A r \in DOMAIN conv : whole(conv[r]) THEN "int64"
        ELSE IF \A r \in DOMAIN conv : numeric(conv[r]) THEN "float64"
        ELSE "object"

\* the frame a parser returns for the columns and rows of a file: in a
\* numeric column numeric text is the number it spells, and the whole
\* numbers of a float64 column are floats
Parsed(cols, rows) ==
    LET dt == [i \in DOMAIN cols |-> InferDtype([r \in DOMAIN rows |-> rows[r][i]])]
        cell(c, d) ==
            LET x == ParseCell(c) IN
            IF d = "object" THEN x
            ELSE LET y == ToNumericCell(x)
                 IN  IF d = "float64" /\ y.k = "int" THEN AsFloat(y) ELSE y
    IN  Frame(cols, dt,
              [r \in DOMAIN rows |->
                 [i \in DOMAIN cols |-> cell(rows[r][i], dt[i])]])

WideCols == IdVars \o ValueVars

\* a row of the sheet: the cell of Fiscal_Year, a Center_ID and ten amounts
WideRow(fy, cid, vals) ==
    <<fy, StrC(cid), StrC("K1"), StrC("Revenue"), StrC("THB")>> \o vals

\* ten amounts as the sheet holds them: a cell with a whole number is read
\* as an int, a blank cell as a missing value
Amounts(base) == [j \in 1..10 |-> IntC(base + j)]
AmountsBlank == [j \in 1..10 |-> NaN]
\* the first amount is an integer no 4 byte float represents
AmountsWide == [Amounts(20) EXCEPT ![1] = IntC(Float32Exact + 1)]
\* text that is no number and no text for a missing value
AmountsText == [AmountsBlank EXCEPT ![2] = StrC("TBD")]

\* the sheets: amounts above a row of blanks and text (every value column is
\* float64 once the text is coerced), whole numbers only (the value columns
\* are int64), a Fiscal_Year beyond the range of INT, and no rows
KpiFiles == {
    Parsed(WideCols, <<WideRow(IntC(2024), "C01", AmountsWide),
                       WideRow(IntC(2025), "C09", AmountsText)>>),
    Parsed(WideCols, <<WideRow(IntC(2024), "C02", Amounts(60))>>),
    Parsed(WideCols, <<WideRow(BigC(852516352), "C01", Amounts(20)),
                       WideRow(IntC(2024), "C01", AmountsBlank)>>),
    Parsed(WideCols, <<>>) }

CenterFiles == {
    Parsed(<<"Center_ID", "Center_Name">>,
           << <<StrC("C01"), StrC("HQ")>>, <<StrC("C02"), StrC("Branch")>> >>),
    Parsed(<<"Center_ID", "Center_Name">>,
           << <<StrC("C01"), StrC("HQ")>>, <<StrC("C01"), StrC("Annex")>> >>),
    Parsed(<<"Center_Name", "Center_ID">>,
           << <<StrC("HQ"), StrC("C01")>> >>),
    Parsed(<<"Center_ID", "Center_Name", "Region">>,
           << <<StrC("C01"), StrC("HQ"), StrC("North")>> >>),
    Parsed(<<"Center_ID", "Center_Name">>, <<>>) }

\* ------------------------------------------------------------- pipeline

MaxOthers == 1

\* the tables a call of load_to_duckdb can leave behind once it has replaced
\* the table old: the table as created when INSERT raised, and the table
\* filled
SessionResults(old, df, coldefs) ==
    IF coldefs = NoSchema THEN {CreateAsSelect(df)}
    ELSE LET c == CreateOrReplace(old, coldefs)
         IN  {c} \cup (IF InsertOk(c, df) THEN {InsertSelect(c, df)} ELSE {})

\* the column definitions of the load into table t
SchemaOf(t) ==
    CASE t = "KPI_FY" -> KpiSchema
      [] t = "M_Center" -> CenterSchema
      [] t = "KPI_FY_Final" -> NoSchema

\* the frames a run of the job hands to load_to_duckdb for table t
FramesLoaded(t) ==
    CASE t = "KPI_FY" ->
            LET read == {read_validated_kpi_fy(f) : f \in KpiFiles}
                pivoted == {pivot_validated_kpi_fy(r.df) : r \in {x \in read : x.ok}}
            IN  {p.df : p \in {x \in pivoted : x.ok}}
      [] t = "M_Center" ->
            LET read == {read_validate_m_center(f) : f \in CenterFiles}
            IN  {r.df : r \in {x \in read : x.ok}}
      [] t = "KPI_FY_Final" ->
            IF sink["KPI_FY"].exists /\ sink["M_Center"].exists
            THEN {JoinedFrame(sink["KPI_FY"], sink["M_Center"], others)}
            ELSE {}

\* an asset of another run of the job (an earlier run, or one that the
\* schedule or a user launched while this one runs) calls load_to_duckdb
\* for table t and replaces the table
OtherLoad(t) ==
    /\ others < MaxOthers
    /\ conns = {}
    /\ \E df \in FramesLoaded(t) : \E tbl \in SessionResults(sink[t], df, SchemaOf(t)) :
           sink' = [sink EXCEPT ![t] = tbl]
    /\ others' = others + 1
    /\ UNCHANGED <<kpiFile, centerFile, status, pc, out, conns, ld,
                   passed, rejected, loadCalls, at, arg, ret>>

PipeInit ==
    /\ kpiFile \in KpiFiles
    /\ centerFile \in CenterFiles
    /\ others = 0
    /\ status = [s \in Stages |-> "pending"]
    /\ pc = [s \in Stages |-> "none"]
    /\ out = [s \in Stages |-> NoFrame]
    /\ sink = [t \in Tables |-> NoTable]
    /\ conns = {}
    /\ ld = [s \in Loaders |-> Idle]
    /\ passed = {}
    /\ rejected = {}
    /\ loadCalls = {}
    /\ at = "pipeline"
    /\ arg = NoFrame
    /\ ret = NoFrame

Next ==
    \/ \E s \in Stages : StartStage(s)
    \/ ReadKpi
    \/ PivotKpi
    \/ ReadCenter
    \/ \E s \in Loaders : CallLoader(s)
    \/ \E s \in Loaders : LoadStep(s)
    \/ \E s \in Loaders : LoaderReturn(s)
    \/ \E s \in Stages : StageConnect(s)
    \/ \E s \in Stages : StageFault(s)
    \/ \E s \in Stages : PreviewSelect(s)
    \/ JoinQuery
    \/ JoinReturn
    \/ \E s \in Stages : StageExit(s)
    \/ \E t \in Tables : OtherLoad(t)

Spec == PipeInit /\ [][Next]_vars

\* ------------------------------------------------- claims on the pipeline

\* the load call of this run for table t, when there is one
LoadedFrames(t) == {c.df : c \in {x \in loadCalls : x.table = t}}

\* the tables loaded downstream of an asset that validates
LoadsAfter(s) ==
    IF s = "read_validate_m_center" THEN {"M_Center", "KPI_FY_Final"}
    ELSE {"KPI_FY", "KPI_FY_Final"}

\* C1 as stated: every frame handed to load_to_duckdb, the joined frame
\* included, is one validate_data returned in this run.
EveryLoadValidated == \A c \in loadCalls : c.df \in passed

\* C1, amended: every frame loaded into KPI_FY or M_Center is one
\* validate_data returned in this run, and once validate_data has raised in
\* an asset no table downstream of that asset is loaded in the run; the
\* joined frame loaded into KPI_FY_Final is not validated.
SourceLoadsValidated ==
    /\ \A c \in loadCalls : c.table \in {"KPI_FY", "M_Center"} => c.df \in passed
    /\ \A s \in rejected : \A c \in loadCalls : c.table \notin LoadsAfter(s)

SourceLoadsValidatedWitness ==
    /\ status["kpi_fy"] = "success"
    /\ status["m_center"] = "success"
    /\ LoadedFrames("KPI_FY") # {}
    /\ LoadedFrames("M_Center") # {}

\* the predecessors the dependency contract names for every stage
Predecessors(s) ==
    CASE s = "pivot_validated_kpi_fy" -> {"read_validated_kpi_fy"}
      [] s = "kpi_fy" -> {"read_validated_kpi_fy", "pivot_validated_kpi_fy"}
      [] s = "preview_kpi_fy" -> {"pivot_validated_kpi_fy", "kpi_fy"}
      [] s = "m_center" -> {"read_validate_m_center"}
      [] s = "preview_m_center" -> {"read_validate_m_center", "m_center"}
      [] s = "kpi_fy_final_asset" ->
            {"kpi_fy", "preview_kpi_fy", "m_center", "preview_m_center"}
      [] s = "preview_kpi_fy_final" -> {"kpi_fy_final_asset"}
      [] OTHER -> {}

\* C2: a stage that has started (is running or has ended) has all its
\* predecessors completed successfully, so a stage with a failed
\* predecessor never starts.
DependencyOrder ==
    \A s \in Stages : status[s] # "pending" =>
        \A d \in Predecessors(s) : status[d] = "success"

DependencyOrderWitness ==
    /\ status["preview_kpi_fy_final"] = "success"
    /\ status["kpi_fy"] = "success"
    /\ status["m_center"] = "success"

\* C10: every open connection belongs to an asset that is running, on
\* success and after every error: the connection of load_to_duckdb is open
\* only while that call is between its connect and its return or raise, and
\* the connection of an asset only while that asset is inside its with block.
ConnectionsReleased ==
    \A c \in conns :
        /\ status[c.stage] = "running"
        /\ c.owner = "load" =>
              c.stage \in Loaders
              /\ ld[c.stage].pc \in {"create", "insert", "sample", "except"}
        /\ c.owner = "asset" =>
              c.stage \in Openers
              /\ pc[c.stage] \in {"opened", "calling", "ok", "fail"}

ConnectionsReleasedWitness ==
    /\ ld["m_center"].pc = "raised"
    /\ ld["m_center"].opened
    /\ ld["m_center"].logged = 1
    /\ status["preview_kpi_fy"] = "success"
    /\ conns = {}

\* C5: when load_to_duckdb returns, it leaves a table with one row per row
\* of the frame just loaded, in order, each the stored form of that row under the
\* table's column types, whatever the table held before; with column
\* definitions the table has the declared columns.
LoadIsFullReplace ==
    \A s \in Loaders : ld[s].pc = "returned" =>
        LET t == ld[s].after[ld[s].table] IN
        /\ t.exists
        /\ Len(t.rows) = Len(ld[s].df.rows)
        /\ t.rows = CastRows(ld[s].df.rows, t.types)
        /\ ld[s].coldefs # NoSchema =>
              t.cols = SchemaCols(ld[s].coldefs) /\ t.types = SchemaTypes(ld[s].coldefs)
        /\ ld[s].coldefs = NoSchema => t.cols = ld[s].df.cols

LoadIsFullReplaceWitness ==
    \E s \in Loaders :
        /\ ld[s].pc = "returned"
        /\ ld[s].coldefs # NoSchema
        /\ ld[s].before[ld[s].table].rows # <<>>
        /\ Len(ld[s].before[ld[s].table].rows) # Len(ld[s].after[ld[s].table].rows)

\* C7 as stated, for a table that held rows: when load_to_duckdb raises
\* after it opened plan.db, that table and every other table of the sink is
\* as the call found it.
FailedLoadIsAtomic ==
    \A s \in Loaders :
        ld[s].pc = "raised" /\ ld[s].opened /\ ld[s].before[ld[s].table].rows # <<>>
            => ld[s].after = ld[s].before

\* a column name of a frame as the column definitions spell it
SchemaName(c) ==
    CASE c = "Kpi Number" -> "Kpi_Number"
      [] c = "Amount Name" -> "Amount_Name"
      [] c = "Amount Type" -> "Amount_Type"
      [] OTHER -> c

\* C8 as stated: load_to_duckdb with column definitions returns only for a
\* frame whose columns are in the order of the column definitions.
ColumnOrderEnforced ==
    \A s \in Loaders : ld[s].pc = "returned" /\ ld[s].coldefs # NoSchema =>
        [i \in DOMAIN ld[s].df.cols |-> SchemaName(ld[s].df.cols[i])]
            = SchemaCols(ld[s].coldefs)

\* the first min(5, n) rows of a sequence of rows
Head5(rows) == SubSeq(rows, 1, Min(5, Len(rows)))

\* C9 as stated: a preview that succeeded holds the first min(5, n) rows of
\* the frame loaded into its table, cell for cell.
PreviewEqualsLoaded ==
    \A s \in Previews : status[s] = "success" =>
        \E df \in LoadedFrames(PreviewTable(s)) : out[s].rows = Head5(df.rows)

\* the asset that loads the table a preview reads
LoaderOf(s) ==
    CASE s = "preview_kpi_fy" -> "kpi_fy"
      [] s = "preview_m_center" -> "m_center"
      [] s = "preview_kpi_fy_final" -> "kpi_fy_final_asset"

\* the table of preview s is as the load of this run left it
Untouched(s) == sink[PreviewTable(s)] = ld[LoaderOf(s)].after[PreviewTable(s)]

\* what a step of a preview asset does
PreviewStep ==
    \A s \in Previews : pc'[s] # pc[s] =>
        /\ sink' = sink
        /\ (pc[s] = "opened" /\ pc'[s] = "ok") =>
              /\ out'[s].rows = Head5(sink[PreviewTable(s)].rows)
              /\ Untouched(s) =>
                    \E df \in LoadedFrames(PreviewTable(s)) :
                        out'[s].rows =
                            CastRows(Head5(df.rows), sink[PreviewTable(s)].types)

\* C9, amended: the step of a preview that runs its SELECT yields the first
\* min(5, n) rows of its table in the table's order; when no other run has
\* replaced the table since this run loaded it, these are the first rows of
\* the frame loaded, in the frame's order, each cell cast to the type of its
\* column in the table (an Amount is narrowed to a 4 byte float); and no
\* step of a preview changes the sink.
PreviewShowsStoredPrefix == [][PreviewStep]_vars

PreviewShowsStoredPrefixWitness ==
    /\ status["preview_kpi_fy"] = "success"
    /\ status["preview_m_center"] = "success"
    /\ Untouched("preview_kpi_fy")
    /\ Len(out["preview_kpi_fy"].rows) = 5
    /\ Len(out["preview_m_center"].rows) < 5
    /\ \E df \in LoadedFrames("KPI_FY") : out["preview_kpi_fy"].rows # Head5(df.rows)

\* the sink as the load of the join asset left it
Joined == ld["kpi_fy_final_asset"].after

\* the rows of M_Center whose Center_ID is that of row k of KPI_FY
Matches(k) ==
    LET K == Joined["KPI_FY"]
        M == Joined["M_Center"]
    IN  {j \in DOMAIN M.rows :
            M.rows[j][ColIdx(M, "Center_ID")] = K.rows[k][ColIdx(K, "Center_ID")]}

\* the rows of KPI_FY_Final that begin with row k of KPI_FY
Copies(k) ==
    LET K == Joined["KPI_FY"]
        F == Joined["KPI_FY_Final"]
    IN  {f \in DOMAIN F.rows : SubSeq(F.rows[f], 1, Len(K.cols)) = K.rows[k]}

\* the Center_Name of row f of KPI_FY_Final is that of a matching row of
\* M_Center, or null when row k of KPI_FY has no match
NameOfMatch(f, k) ==
    LET M == Joined["M_Center"]
        F == Joined["KPI_FY_Final"]
        name == F.rows[f][ColIdx(F, "Center_Name")]
    IN  IF Matches(k) = {} THEN name = NaN
        ELSE \E j \in Matches(k) : name = M.rows[j][ColIdx(M, "Center_Name")]

RECURSIVE JoinedCount(_)
\* the rows a left join gives for the first k rows of KPI_FY
JoinedCount(k) ==
    IF k = 0 THEN 0
    ELSE JoinedCount(k - 1)
            + (IF Matches(k) = {} THEN 1 ELSE Cardinality(Matches(k)))

\* C4 as stated: when the load of the join asset has returned, KPI_FY_Final
\* has as many rows as KPI_FY, every row of KPI_FY begins exactly one row of
\* it, and that row carries the matching Center_Name or null.
JoinKeepsEveryRowOnce ==
    ld["kpi_fy_final_asset"].pc = "returned" =>
        /\ Len(Joined["KPI_FY_Final"].rows) = Len(Joined["KPI_FY"].rows)
        /\ \A k \in DOMAIN Joined["KPI_FY"].rows :
              /\ Cardinality(Copies(k)) = 1
              /\ \A f \in Copies(k) : NameOfMatch(f, k)

\* C4, amended: when the load of the join asset has returned, every row of
\* KPI_FY begins one row of KPI_FY_Final for each row of M_Center with its
\* Center_ID, and one row with Center_Name null when there is none; every
\* row of KPI_FY_Final is such a row; the row counts are equal when no
\* Center_ID of KPI_FY occurs twice in M_Center.
JoinKeepsEveryRow ==
    ld["kpi_fy_final_asset"].pc = "returned" =>
        LET K == Joined["KPI_FY"]
            F == Joined["KPI_FY_Final"]
        IN  /\ Len(F.rows) = JoinedCount(Len(K.rows))
            /\ \A k \in DOMAIN K.rows :
                  /\ Cardinality(Copies(k)) =
                        IF Matches(k) = {} THEN 1 ELSE Cardinality(Matches(k))
                  /\ \A f \in Copies(k) : NameOfMatch(f, k)
            /\ \A f \in DOMAIN F.rows : \E k \in DOMAIN K.rows : f \in Copies(k)
            /\ (\A k \in DOMAIN K.rows : Cardinality(Matches(k)) <= 1)
                  => Len(F.rows) = Len(K.rows)

JoinKeepsEveryRowWitness ==
    /\ ld["kpi_fy_final_asset"].pc = "returned"
    /\ \E k \in DOMAIN Joined["KPI_FY"].rows : Matches(k) = {}
    /\ \E k \in DOMAIN Joined["KPI_FY"].rows : Cardinality(Matches(k)) = 2

\* ---------------------------------------------------- direct calls: pivot

MaxRows == 2

\* the state of the pipeline while a function is called on its own
NoPipeline ==
    /\ kpiFile = NoFrame
    /\ centerFile = NoFrame
    /\ others = 0
    /\ status = [s \in Stages |-> "pending"]
    /\ pc = [s \in Stages |-> "none"]
    /\ out = [s \in Stages |-> NoFrame]
    /\ sink = [t \in Tables |-> NoTable]
    /\ conns = {}
    /\ ld = [s \in Loaders |-> Idle]
    /\ passed = {}
    /\ rejected = {}
    /\ loadCalls = {}

\* ten value cells: whole numbers with some missing, and a cell the parser
\* read as a float
AmountsMissing == [Amounts(20) EXCEPT ![3] = NaN, ![10] = NaN]
AmountsFloat == [Amounts(0) EXCEPT ![5] = FltC(7)]

WideRows == {
    WideRow(IntC(2024), "C01", Amounts(20)),
    WideRow(IntC(2024), "C01", Amounts(40)),
    WideRow(IntC(2024), "C01", AmountsMissing),
    WideRow(IntC(2024), "C02", AmountsMissing),
    WideRow(IntC(2025), "C02", AmountsWide),
    WideRow(IntC(2025), "C01", AmountsText),
    WideRow(IntC(2025), "C02", AmountsBlank),
    WideRow(IntC(2026), "C03", AmountsFloat) }

RECURSIVE SeqsUpTo(_, _)
\* the sequences of at most n elements of S
SeqsUpTo(S, n) ==
    IF n = 0 THEN {<<>>}
    ELSE LET shorter == SeqsUpTo(S, n - 1)
         IN  shorter \cup {Append(q, x) : q \in {y \in shorter : Len(y) = n - 1}, x \in S}

\* the wide frame with the value columns before the identifier columns
ValuesFirst(df) ==
    Frame(ValueVars \o IdVars,
          SubSeq(df.dtypes, 6, 15) \o SubSeq(df.dtypes, 1, 5),
          [r \in DOMAIN df.rows |-> SubSeq(df.rows[r], 6, 15) \o SubSeq(df.rows[r], 1, 5)])

WideFrames ==
    LET plain == {Parsed(WideCols, rows) : rows \in SeqsUpTo(WideRows, MaxRows)}
    IN  plain \cup {ValuesFirst(df) : df \in plain}

PivotInit ==
    /\ NoPipeline
    /\ arg \in WideFrames
    /\ ret = NoFrame
    /\ at = "call"

\* pivot_data(arg) is called and returns
CallPivot ==
    /\ at = "call"
    /\ ret' = pivot_data(arg)
    /\ at' = "pivoted"
    /\ UNCHANGED <<kpiFile, centerFile, others, status, pc, out, sink, conns, ld,
                   passed, rejected, loadCalls, arg>>

PivotNext == CallPivot

SpecPivot == PivotInit /\ [][PivotNext]_vars

\* the identifier cells of row r of the wide frame df
IdsOf(df, r) == [i \in DOMAIN IdVars |-> df.rows[r][ColIdx(df, IdVars[i])]]

\* two cells hold the same value: both missing, or the same number or text
SameValue(a, b) ==
    IF a.k = "nan" \/ b.k = "nan" THEN a.k = b.k
    ELSE a.n = b.n /\ a.hi = b.hi /\ a.s = b.s

\* long row x is the cell of wide row r in value column j
IsCellOf(x, df, r, j) ==
    /\ SubSeq(x, 1, 5) = IdsOf(df, r)
    /\ x[6] = StrC(ValueVars[j])
    /\ SameValue(x[7], df.rows[r][ColIdx(df, ValueVars[j])])

\* C3: pivot_data of a wide frame of R rows returns 10 * R rows, and for
\* every row and value column of the input the output holds the tuple
\* (identifiers, Amount Name, Amount) of that cell as many times as the
\* input holds such a cell; a missing value is a row like any other.
PivotCoversEveryCell ==
    at = "pivoted" =>
        /\ Len(ret.rows) = 10 * Len(arg.rows)
        /\ SubSeq(ret.cols, 1, 7) = IdVars \o <<"Amount Name", "Amount">>
        /\ \A r \in DOMAIN arg.rows : \A j \in DOMAIN ValueVars :
              Cardinality({k \in DOMAIN ret.rows : IsCellOf(ret.rows[k], arg, r, j)})
                = Cardinality({q \in DOMAIN arg.rows :
                      /\ IdsOf(arg, q) = IdsOf(arg, r)
                      /\ SameValue(arg.rows[q][ColIdx(arg, ValueVars[j])],
                                   arg.rows[r][ColIdx(arg, ValueVars[j])])})

PivotCoversEveryCellWitness ==
    /\ at = "pivoted"
    /\ Len(arg.rows) = 2
    /\ IdsOf(arg, 1) = IdsOf(arg, 2)
    /\ arg.rows[1] # arg.rows[2]
    /\ \E k \in DOMAIN ret.rows : ret.rows[k][7] = NaN
    /\ Len(ret.rows) = 20

\* ------------------------------------------------- direct calls: validate

MaxContract == 3

\* the contracts of the pipeline and their runs of at most MaxContract entries
Contracts ==
    {SubSeq(c, i, Min(Len(c), i + MaxContract - 1)) :
        c \in {KpiContract, PivotContract, CenterContract}, i \in {1, 5, 6}}

\* a cell of a column of the dtype
CellOf(dtype) ==
    CASE dtype = "int64" -> IntC(1)
      [] dtype = "float64" -> FltC(1)
      [] OTHER -> StrC("x")

\* the frames of one row that hold some of the contract's columns, each of
\* some dtype, in the contract's order or in the reverse order
FramesFor(contract) ==
    LET choices == [DOMAIN contract -> {"absent", "int64", "float64", "object"}]
        kept(ch) == SelectSeq([i \in DOMAIN contract |-> i], LAMBDA i : ch[i] # "absent")
        frame(ch, rev) ==
            LET ks == kept(ch)
                pick(i) == IF rev THEN ks[Len(ks) + 1 - i] ELSE ks[i]
            IN  Frame([i \in DOMAIN ks |-> contract[pick(i)][1]],
                      [i \in DOMAIN ks |-> ch[pick(i)]],
                      << [i \in DOMAIN ks |-> CellOf(ch[pick(i)])] >>)
    IN  {frame(ch, rev) : ch \in choices, rev \in BOOLEAN}

ValidateInit ==
    /\ NoPipeline
    /\ \E c \in Contracts : \E df \in FramesFor(c) :
           arg = [df |-> df, expected_types |-> c]
    /\ ret = NoFrame
    /\ at = "call"

\* validate_data(df, expected_types, passed_info) is called and ends
CallValidate ==
    /\ at = "call"
    /\ ret' = validate_data(arg.df, arg.expected_types)
    /\ at' = "validated"
    /\ UNCHANGED <<kpiFile, centerFile, others, status, pc, out, sink, conns, ld,
                   passed, rejected, loadCalls, arg>>

ValidateNext == CallValidate

SpecValidate == ValidateInit /\ [][ValidateNext]_vars

\* contract entry i is violated by the frame: absent, or of another dtype
Violated(df, contract, i) ==
    \/ contract[i][1] \notin Range(df.cols)
    \/ \E c \in DOMAIN df.cols :
          /\ df.cols[c] = contract[i][1]
          /\ df.dtypes[c] # ExpectedDtype(contract[i][2])

\* C6: validate_data raises for the first violated entry of the contract,
\* in the contract's order: ValueError naming the column when it is absent,
\* TypeError naming it when its dtype differs; when no entry is violated it
\* returns the frame it was given.
FirstViolationReported ==
    at = "validated" =>
        LET c == arg.expected_types
            bad == {i \in DOMAIN c : Violated(arg.df, c, i)}
        IN  IF bad = {} THEN ret.ok /\ ret.df = arg.df
            ELSE LET i == CHOOSE i \in bad : \A j \in bad : i <= j
                 IN  /\ ~ret.ok
                     /\ ret.col = c[i][1]
                     /\ ret.err = IF c[i][1] \in Range(arg.df.cols)
                                  THEN "TypeError" ELSE "ValueError"

FirstViolationReportedWitness ==
    /\ at = "validated"
    /\ ~ret.ok
    /\ ret.err = "TypeError"
    /\ \E i \in DOMAIN arg.expected_types :
          /\ arg.expected_types[i][1] \notin Range(arg.df.cols)
          /\ \E j \in 1..(i - 1) : arg.expected_types[j][1] = ret.col

=============================================================================
